---------------------------- MODULE Spec2Model ----------------------------
(* Multi-method income prediction: predict-traditional, predict-ml,        *)
(* predict-hybrid and compare-methods (Cloudflare Pages Functions).        *)
(*                                                                         *)
(* Number representation (the code uses IEEE doubles; the model is exact   *)
(* decimal fixed point):                                                   *)
(*   - incomes are integers (whole dollars);                               *)
(*   - every `confidence` field is an integer in units of 10^-8, so that   *)
(*     0.95 is 95000000; the inputs of the hybrid combiner are multiples   *)
(*     of 0.01, as every value of the two lookup tables is;                *)
(*   - weights are hundredths (0.68 is 68);                                *)
(*   - the indicators of STATE_DATA are thousandths (1.45 is 1450) and     *)
(*     the adjustment factors of ZIP_ADJUSTMENTS are hundredths.           *)
(* A ZIP code string is a tuple of one-character strings.                  *)
EXTENDS Integers, Sequences, FiniteSets, TLC

(***************************************************************************)
(* Generic helpers                                                         *)
(***************************************************************************)
Min(a, b) == IF a <= b THEN a ELSE b

Max(a, b) == IF a >= b THEN a ELSE b

Abs(a) == IF a < 0 THEN -a ELSE a

\* 0.01 as a confidence (units of 10^-8).
Cent == 10^6

\* F applied to the value of x, which is evaluated once.
Apply(F(_), x) == CHOOSE r \in {F(v) : v \in {x}} : TRUE

\* Math.round(x / 100): round half towards +Infinity.
RoundHundredths(x) == (x + 50) \div 100

\* Number.prototype.toFixed: x / unit rounded to an integer, a tie going
\* away from zero (the digits are those of the absolute value).
ToFixed(x, unit) ==
    LET n == (2 * Abs(x) + unit) \div (2 * unit)
    IN  IF x < 0 THEN -n ELSE n

(***************************************************************************)
(* Exact products of decimals: little-endian sequences of decimal digits   *)
(***************************************************************************)
RECURSIVE ToDigits(_)
ToDigits(n) == IF n < 10 THEN <<n>> ELSE <<n % 10>> \o ToDigits(n \div 10)

RECURSIVE MulDigits(_, _, _)
MulDigits(ds, m, carry) ==
    IF ds = <<>>
    THEN IF carry = 0 THEN <<>> ELSE ToDigits(carry)
    ELSE LET v == Head(ds) * m + carry
         IN  <<v % 10>> \o MulDigits(Tail(ds), m, v \div 10)

RECURSIVE FromDigits(_)
FromDigits(ds) == IF ds = <<>> THEN 0 ELSE Head(ds) + 10 * FromDigits(Tail(ds))

RECURSIVE AddDigits(_, _, _)
AddDigits(a, b, carry) ==
    IF a = <<>> /\ b = <<>>
    THEN IF carry = 0 THEN <<>> ELSE <<carry>>
    ELSE LET x == IF a = <<>> THEN 0 ELSE Head(a)
             y == IF b = <<>> THEN 0 ELSE Head(b)
             v == x + y + carry
         IN  <<v % 10>> \o AddDigits(IF a = <<>> THEN a ELSE Tail(a),
                                     IF b = <<>> THEN b ELSE Tail(b), v \div 10)

\* Quotient digits of ds \div k, by long division from the top digit; rem
\* is the remainder carried into ds.
RECURSIVE DivDigits(_, _, _)
DivDigits(ds, k, rem) ==
    IF ds = <<>> THEN <<>>
    ELSE LET n   == Len(ds)
             cur == rem * 10 + ds[n]
         IN  DivDigits(SubSeq(ds, 1, n - 1), k, cur % k) \o <<cur \div k>>

\* a <= b for digit sequences without leading zeros.
RECURSIVE LeqDigits(_, _)
LeqDigits(a, b) ==
    IF Len(a) # Len(b) THEN Len(a) < Len(b)
    ELSE IF a = <<>> THEN TRUE
    ELSE LET n == Len(a)
         IN  IF a[n] # b[n] THEN a[n] < b[n]
             ELSE LeqDigits(SubSeq(a, 1, n - 1), SubSeq(b, 1, n - 1))

\* Math.round of sign * (ds / 10^scale): round half towards +Infinity.
RoundDigits(ds, scale, sign) ==
    LET n       == Len(ds)
        intPart == IF n > scale THEN FromDigits(SubSeq(ds, scale + 1, n)) ELSE 0
        half    == IF scale >= 1 /\ n >= scale THEN ds[scale] ELSE 0
        lowZero == \A i \in 1..(Min(n, scale) - 1) : ds[i] = 0
        up      == IF sign >= 0 THEN half >= 5
                   ELSE half > 5 \/ (half = 5 /\ ~lowZero)
        mag     == intPart + (IF up THEN 1 ELSE 0)
    IN  IF sign >= 0 THEN mag ELSE -mag

(***************************************************************************)
(* ZIP code strings                                                        *)
(***************************************************************************)
DIGITS == {"0", "1", "2", "3", "4", "5", "6", "7", "8", "9"}

\* /^\d{5}$/.test(zipCode)
IsFiveDigits(z) == Len(z) = 5 /\ \A i \in 1..5 : z[i] \in DIGITS

\* Absent zipCode property of the request body (undefined).
NoZip == <<"undefined">>

\* InvalidZip with an unanchored pattern, /\d{5}/.
InvalidZipUnanchored(z) ==
    z = NoZip \/ z = <<>>
      \/ ~\E k \in 0..(Len(z) - 5) : \A i \in 1..5 : z[k + i] \in DIGITS

\* !zipCode || !/^\d{5}$/.test(zipCode)
InvalidZip(z) == z = NoZip \/ z = <<>> \/ ~IsFiveDigits(z)

Z10001 == <<"1", "0", "0", "0", "1">>

Z90001 == <<"9", "0", "0", "0", "1">>

Z60601 == <<"6", "0", "6", "0", "1">>

Z77001 == <<"7", "7", "0", "0", "1">>

Z33109 == <<"3", "3", "1", "0", "9">>

Z94027 == <<"9", "4", "0", "2", "7">>

(***************************************************************************)
(* Lookup tables                                                           *)
(***************************************************************************)
STATE_DATA ==
    [s \in {"NY", "CA", "IL", "TX", "FL"} |->
       CASE s = "NY" -> [medianIncome |-> 72000, costOfLivingIndex |-> 1450,
                         unemploymentRate |-> 42, educationIndex |-> 780,
                         youngProfessionalRatio |-> 650, gdpGrowthRate |-> 28]
         [] s = "CA" -> [medianIncome |-> 78000, costOfLivingIndex |-> 1520,
                         unemploymentRate |-> 48, educationIndex |-> 720,
                         youngProfessionalRatio |-> 680, gdpGrowthRate |-> 32]
         [] s = "IL" -> [medianIncome |-> 68000, costOfLivingIndex |-> 1120,
                         unemploymentRate |-> 45, educationIndex |-> 680,
                         youngProfessionalRatio |-> 580, gdpGrowthRate |-> 24]
         [] s = "TX" -> [medianIncome |-> 64000, costOfLivingIndex |-> 950,
                         unemploymentRate |-> 40, educationIndex |-> 620,
                         youngProfessionalRatio |-> 600, gdpGrowthRate |-> 35]
         [] s = "FL" -> [medianIncome |-> 59000, costOfLivingIndex |-> 1020,
                         unemploymentRate |-> 38, educationIndex |-> 580,
                         youngProfessionalRatio |-> 520, gdpGrowthRate |-> 30]]

ZIP_ADJUSTMENTS ==
    [z \in {Z10001, Z90001, Z60601, Z77001, Z33109, Z94027} |->
       CASE z = Z10001 -> [state |-> "NY", adjustmentFactor |-> 135, ranking |-> "high"]
         [] z = Z90001 -> [state |-> "CA", adjustmentFactor |-> 68, ranking |-> "low"]
         [] z = Z60601 -> [state |-> "IL", adjustmentFactor |-> 122, ranking |-> "high"]
         [] z = Z77001 -> [state |-> "TX", adjustmentFactor |-> 108, ranking |-> "medium"]
         [] z = Z33109 -> [state |-> "FL", adjustmentFactor |-> 182, ranking |-> "high"]
         [] z = Z94027 -> [state |-> "CA", adjustmentFactor |-> 225, ranking |-> "high"]]

\* ML_PREDICTIONS without the entry of 94027.
ML_PREDICTIONSFiveRegions ==
    [z \in {Z10001, Z90001, Z60601, Z77001, Z33109} |->
       CASE z = Z10001 -> [state |-> "NY", predictedIncome |-> 88500, confidence |-> 95 * Cent]
         [] z = Z90001 -> [state |-> "CA", predictedIncome |-> 46200, confidence |-> 91 * Cent]
         [] z = Z60601 -> [state |-> "IL", predictedIncome |-> 72800, confidence |-> 93 * Cent]
         [] z = Z77001 -> [state |-> "TX", predictedIncome |-> 64500, confidence |-> 92 * Cent]
         [] z = Z33109 -> [state |-> "FL", predictedIncome |-> 98200, confidence |-> 96 * Cent]]

ML_PREDICTIONS ==
    [z \in {Z10001, Z90001, Z60601, Z77001, Z33109, Z94027} |->
       CASE z = Z10001 -> [state |-> "NY", predictedIncome |-> 88500, confidence |-> 95 * Cent]
         [] z = Z90001 -> [state |-> "CA", predictedIncome |-> 46200, confidence |-> 91 * Cent]
         [] z = Z60601 -> [state |-> "IL", predictedIncome |-> 72800, confidence |-> 93 * Cent]
         [] z = Z77001 -> [state |-> "TX", predictedIncome |-> 64500, confidence |-> 92 * Cent]
         [] z = Z33109 -> [state |-> "FL", predictedIncome |-> 98200, confidence |-> 96 * Cent]
         [] z = Z94027 -> [state |-> "CA", predictedIncome |-> 165000, confidence |-> 97 * Cent]]

(***************************************************************************)
(* predict-traditional: the StatisticalEstimator                           *)
(***************************************************************************)
\* TraditionalComponents with the education coefficient 0.25 of the header
\* comment in place of 0.15.
TraditionalComponentsEducationQuarter(stateData, zipData) ==
    [baseIncome             |-> stateData.medianIncome * zipData.adjustmentFactor,
     costOfLivingIndex      |-> IF stateData.costOfLivingIndex > 1300
                                THEN 100000 + (stateData.costOfLivingIndex - 1000) * 65
                                ELSE stateData.costOfLivingIndex * 100,
     educationAdjustment    |-> 100000 + stateData.educationIndex * 25,
     unemploymentAdjustment |-> 1000 - stateData.unemploymentRate * 3,
     ageDistributionFactor  |-> 10000 + stateData.youngProfessionalRatio,
     regionalEconomicIndex  |-> 10000 + stateData.gdpGrowthRate * 5]

\* TraditionalComponents with the unemployment coefficient 5.0 of the
\* earlier calibration in place of 3.0.
TraditionalComponentsUnemploymentFive(stateData, zipData) ==
    [baseIncome             |-> stateData.medianIncome * zipData.adjustmentFactor,
     costOfLivingIndex      |-> IF stateData.costOfLivingIndex > 1300
                                THEN 100000 + (stateData.costOfLivingIndex - 1000) * 65
                                ELSE stateData.costOfLivingIndex * 100,
     educationAdjustment    |-> 100000 + stateData.educationIndex * 15,
     unemploymentAdjustment |-> 1000 - stateData.unemploymentRate * 5,
     ageDistributionFactor  |-> 10000 + stateData.youngProfessionalRatio,
     regionalEconomicIndex  |-> 10000 + stateData.gdpGrowthRate * 5]

\* The six multipliers of one region, each with its decimal scale:
\* baseIncome in 10^-2, costOfLivingIndex and educationAdjustment in 10^-5,
\* unemploymentAdjustment in 10^-3, ageDistributionFactor and
\* regionalEconomicIndex in 10^-4.
TraditionalComponents(stateData, zipData) ==
    [baseIncome             |-> stateData.medianIncome * zipData.adjustmentFactor,
     costOfLivingIndex      |-> IF stateData.costOfLivingIndex > 1300
                                THEN 100000 + (stateData.costOfLivingIndex - 1000) * 65
                                ELSE stateData.costOfLivingIndex * 100,
     educationAdjustment    |-> 100000 + stateData.educationIndex * 15,
     unemploymentAdjustment |-> 1000 - stateData.unemploymentRate * 3,
     ageDistributionFactor  |-> 10000 + stateData.youngProfessionalRatio,
     regionalEconomicIndex  |-> 10000 + stateData.gdpGrowthRate * 5]

\* Math.round(baseIncome * costOfLivingIndex * ... * regionalEconomicIndex)
TraditionalIncome(c) ==
    LET sgn(x) == IF x < 0 THEN -1 ELSE 1
        sign == sgn(c.baseIncome) * sgn(c.costOfLivingIndex) * sgn(c.educationAdjustment)
                  * sgn(c.unemploymentAdjustment) * sgn(c.ageDistributionFactor)
                  * sgn(c.regionalEconomicIndex)
        p1 == MulDigits(ToDigits(Abs(c.baseIncome)), Abs(c.costOfLivingIndex), 0)
        p2 == MulDigits(p1, Abs(c.educationAdjustment), 0)
        p3 == MulDigits(p2, Abs(c.unemploymentAdjustment), 0)
        p4 == MulDigits(p3, Abs(c.ageDistributionFactor), 0)
        p5 == MulDigits(p4, Abs(c.regionalEconomicIndex), 0)
    IN  RoundDigits(p5, 23, sign)

\* confidence = min(0.87 + bonuses, 0.95)
TraditionalConfidence(stateData, zipData) ==
    LET c0 == 87
        c1 == IF zipData.ranking = "high" \/ zipData.ranking = "medium" THEN c0 + 3 ELSE c0
        c2 == IF stateData.educationIndex > 700 THEN c1 + 2 ELSE c1
        c3 == IF stateData.unemploymentRate < 45 THEN c2 + 2 ELSE c2
    IN  Min(c3, 95) * Cent

\* The numbers quoted by the explanation lines of the statistical result.
\* Percentages printed with toFixed(1) are in tenths of a percent, those
\* printed with toFixed(0) in whole percents; baseIncome is in hundredths
\* of a dollar.
TraditionalExplanation(stateData, zipData, c, predictedIncome, confidence) ==
    [medianIncome      |-> stateData.medianIncome,
     adjustmentFactor  |-> zipData.adjustmentFactor,
     baseIncome        |-> c.baseIncome,
     costOfLiving      |-> ToFixed(c.costOfLivingIndex, 1000),
     educationImpact   |-> ToFixed(c.educationAdjustment - 100000, 100),
     collegeEducated   |-> ToFixed(stateData.educationIndex, 10),
     unemploymentReduction |-> ToFixed(1000 - c.unemploymentAdjustment, 1),
     unemployment      |-> ToFixed(stateData.unemploymentRate, 1),
     demographicsBonus |-> ToFixed(c.ageDistributionFactor - 10000, 10),
     youngProfessionals |-> ToFixed(stateData.youngProfessionalRatio, 10),
     economicGrowth    |-> ToFixed(stateData.gdpGrowthRate, 1),
     predictedIncome   |-> predictedIncome,
     confidence        |-> ToFixed(confidence, 10^5)]

\* Lines 128-206 of calculateTraditionalPrediction: the result for the two
\* records that the lookups of lines 117-126 have found.
TraditionalPrediction(zipCode, zipData, stateData) ==
    LET comps     == TraditionalComponents(stateData, zipData)
        predictedIncome == TraditionalIncome(comps)
        confidence == TraditionalConfidence(stateData, zipData)
    IN  [zipCode         |-> zipCode,
         state           |-> zipData.state,
         predictedIncome |-> predictedIncome,
         confidence      |-> confidence,
         methodology     |-> "traditional",
         components      |-> [comps EXCEPT !.baseIncome = RoundHundredths(@)],
         explanation     |-> TraditionalExplanation(stateData, zipData, comps,
                                                    predictedIncome, confidence)]

\* The outcome of calculateTraditionalPrediction: a result, or the thrown error.
calculateTraditionalPrediction(zipCode) ==
    IF zipCode \notin DOMAIN ZIP_ADJUSTMENTS
    THEN [ok |-> FALSE, error |-> "ZIP code not found in database"]
    ELSE LET zipData == ZIP_ADJUSTMENTS[zipCode]
         IN  IF zipData.state \notin DOMAIN STATE_DATA
             THEN [ok |-> FALSE, error |-> "State data not found"]
             ELSE [ok |-> TRUE,
                   data |-> TraditionalPrediction(zipCode, zipData,
                                                  STATE_DATA[zipData.state])]

(***************************************************************************)
(* predict-ml: the MLPredictor (a fixed lookup table)                      *)
(***************************************************************************)
getMLPrediction(zipCode) ==
    IF zipCode \notin DOMAIN ML_PREDICTIONS
    THEN [ok |-> FALSE, error |-> "ZIP code not found in ML model database"]
    ELSE LET prediction == ML_PREDICTIONS[zipCode]
         IN  [ok |-> TRUE,
              data |-> [zipCode         |-> zipCode,
                        state           |-> prediction.state,
                        predictedIncome |-> prediction.predictedIncome,
                        confidence      |-> prediction.confidence,
                        methodology     |-> "ml"]]

(***************************************************************************)
(* predict-hybrid: the HybridCombiner                                      *)
(***************************************************************************)
\* HybridWeights with the recomputation of ML_WEIGHT left out of the
\* second branch.
HybridWeightsStaleML(traditionalConfidence, mlConfidence) ==
    LET confidenceDiff == mlConfidence - traditionalConfidence
    IN  IF confidenceDiff > 6 * Cent
        THEN [ml |-> 82, traditional |-> 18]
        ELSE IF confidenceDiff < -(6 * Cent)
        THEN [ml |-> 68, traditional |-> 42]
        ELSE IF Abs(confidenceDiff) < 2 * Cent
        THEN [ml |-> 65, traditional |-> 35]
        ELSE [ml |-> 68, traditional |-> 32]

\* HybridWeights that raises the ML weight without lowering the other one.
HybridWeightsStaleTraditional(traditionalConfidence, mlConfidence) ==
    LET confidenceDiff == mlConfidence - traditionalConfidence
    IN  IF confidenceDiff > 6 * Cent
        THEN [ml |-> 82, traditional |-> 32]
        ELSE IF confidenceDiff < -(6 * Cent)
        THEN [ml |-> 58, traditional |-> 42]
        ELSE IF Abs(confidenceDiff) < 2 * Cent
        THEN [ml |-> 65, traditional |-> 35]
        ELSE [ml |-> 68, traditional |-> 32]

\* HybridWeights that treats the two models alike: the more confident one
\* gets 0.82.
HybridWeightsSymmetric(traditionalConfidence, mlConfidence) ==
    LET confidenceDiff == mlConfidence - traditionalConfidence
    IN  IF confidenceDiff > 6 * Cent
        THEN [ml |-> 82, traditional |-> 18]
        ELSE IF confidenceDiff < -(6 * Cent)
        THEN [ml |-> 18, traditional |-> 82]
        ELSE IF Abs(confidenceDiff) < 2 * Cent
        THEN [ml |-> 65, traditional |-> 35]
        ELSE [ml |-> 68, traditional |-> 32]

\* HybridWeights with the two 0.06 thresholds included in the shifts.
HybridWeightsInclusive(traditionalConfidence, mlConfidence) ==
    LET confidenceDiff == mlConfidence - traditionalConfidence
    IN  IF confidenceDiff >= 6 * Cent
        THEN [ml |-> 82, traditional |-> 18]
        ELSE IF confidenceDiff <= -(6 * Cent)
        THEN [ml |-> 58, traditional |-> 42]
        ELSE IF Abs(confidenceDiff) < 2 * Cent
        THEN [ml |-> 65, traditional |-> 35]
        ELSE [ml |-> 68, traditional |-> 32]

\* The weight adjustment of calculateHybridPrediction, in hundredths:
\* the final ML_WEIGHT and TRADITIONAL_WEIGHT for the two input confidences.
HybridWeights(traditionalConfidence, mlConfidence) ==
    LET ML_WEIGHT          == 68
        TRADITIONAL_WEIGHT == 32
        confidenceDiff     == mlConfidence - traditionalConfidence
    IN  IF confidenceDiff > 6 * Cent
        THEN LET w == Min(82, ML_WEIGHT + 14)
             IN  [ml |-> w, traditional |-> 100 - w]
        ELSE IF confidenceDiff < -(6 * Cent)
        THEN LET w == Min(42, TRADITIONAL_WEIGHT + 10)
             IN  [ml |-> 100 - w, traditional |-> w]
        ELSE IF Abs(confidenceDiff) < 2 * Cent
        THEN [ml |-> 65, traditional |-> 35]
        ELSE [ml |-> ML_WEIGHT, traditional |-> TRADITIONAL_WEIGHT]

\* disagreement = |t - m| / max(t, m), compared with pct / 100.  A zero
\* maximum gives NaN (both zero: every comparison false) or +Infinity; a
\* negative maximum gives a quotient that is not positive.
DisagreementLT(t, m, pct) ==
    LET mx == Max(t, m)
    IN  IF mx > 0 THEN Abs(t - m) * 100 < pct * mx
        ELSE IF mx = 0 THEN FALSE
        ELSE TRUE

DisagreementGT(t, m, pct) ==
    LET mx == Max(t, m)
    IN  IF mx > 0 THEN Abs(t - m) * 100 > pct * mx
        ELSE IF mx = 0 THEN t # m
        ELSE FALSE

\* Ensemble boost in hundredths: 1.05, 1.03 or 1.01.
HybridBoost(t, m) ==
    IF DisagreementLT(t, m, 12) THEN 105
    ELSE IF DisagreementLT(t, m, 20) THEN 103
    ELSE 101

\* disagreementPenalty in hundredths: 0.96 above the 25% threshold, else 1.0.
HybridPenalty(t, m) == IF DisagreementGT(t, m, 25) THEN 96 ELSE 100

\* HybridConfidence without the Math.min(0.99, ...) cap.
HybridConfidenceUncapped(traditional, ml, w) ==
    LET tc   == traditional.confidence \div Cent
        mc   == ml.confidence \div Cent
        base == tc * w.traditional + mc * w.ml
    IN  base * HybridBoost(traditional.predictedIncome, ml.predictedIncome)
             * HybridPenalty(traditional.predictedIncome, ml.predictedIncome)

\* HybridConfidence with the cap applied after the penalty.
HybridConfidenceCappedLast(traditional, ml, w) ==
    LET tc   == traditional.confidence \div Cent
        mc   == ml.confidence \div Cent
        base == tc * w.traditional + mc * w.ml
    IN  Min(99 * Cent,
            base * HybridBoost(traditional.predictedIncome, ml.predictedIncome)
                 * HybridPenalty(traditional.predictedIncome, ml.predictedIncome))

\* The confidence of the hybrid result in units of 10^-8: the weighted
\* average, boosted and capped at 0.99, then multiplied by the penalty.
HybridConfidence(traditional, ml, w) ==
    LET tc      == traditional.confidence \div Cent
        mc      == ml.confidence \div Cent
        base    == tc * w.traditional + mc * w.ml
        boosted == Min(99 * 10^4, base * HybridBoost(traditional.predictedIncome,
                                                     ml.predictedIncome))
    IN  boosted * HybridPenalty(traditional.predictedIncome, ml.predictedIncome)

\* The label of the "Model agreement" explanation line.
AgreementLabel(t, m) ==
    IF DisagreementLT(t, m, 12) THEN "very high - 5% confidence boost"
    ELSE IF DisagreementLT(t, m, 20) THEN "high - 3% boost"
    ELSE IF DisagreementGT(t, m, 25) THEN "low - 4% penalty"
    ELSE "moderate - 1% boost"

\* The numbers and the label quoted by the explanation lines of the hybrid
\* result: weights in whole percents (toFixed(0)), confidences in tenths
\* of a percent (toFixed(1)).
HybridExplanation(traditional, ml, w, predictedIncome, confidence) ==
    [traditionalPrediction |-> traditional.predictedIncome,
     traditionalConfidence |-> ToFixed(traditional.confidence, 10^5),
     mlPrediction          |-> ml.predictedIncome,
     mlConfidence          |-> ToFixed(ml.confidence, 10^5),
     traditionalWeight     |-> ToFixed(w.traditional, 1),
     mlWeight              |-> ToFixed(w.ml, 1),
     agreementLabel        |-> AgreementLabel(traditional.predictedIncome, ml.predictedIncome),
     predictedIncome       |-> predictedIncome,
     confidence            |-> ToFixed(confidence, 10^5)]

\* calculateHybridPrediction labelling its result with the ML argument's
\* region.
calculateHybridPredictionMLRegion(traditional, ml) ==
    LET w == HybridWeights(traditional.confidence, ml.confidence)
    IN  [zipCode         |-> ml.zipCode,
         state           |-> ml.state,
         predictedIncome |-> RoundHundredths(traditional.predictedIncome * w.traditional
                                             + ml.predictedIncome * w.ml),
         confidence      |-> HybridConfidence(traditional, ml, w),
         methodology     |-> "hybrid",
         components      |-> [traditionalPrediction |-> traditional.predictedIncome,
                              traditionalConfidence |-> traditional.confidence,
                              mlPrediction          |-> ml.predictedIncome,
                              mlConfidence          |-> ml.confidence,
                              mlWeight              |-> w.ml,
                              traditionalWeight     |-> w.traditional,
                              disagreementPenalty   |-> HybridPenalty(traditional.predictedIncome,
                                                                      ml.predictedIncome)],
         explanation     |-> HybridExplanation(traditional, ml, w,
                                RoundHundredths(traditional.predictedIncome * w.traditional
                                    + ml.predictedIncome * w.ml),
                                HybridConfidence(traditional, ml, w))]

\* calculateHybridPrediction with the two weights applied to the wrong
\* predictions.
calculateHybridPredictionSwapped(traditional, ml) ==
    LET w == HybridWeights(traditional.confidence, ml.confidence)
    IN  [zipCode         |-> traditional.zipCode,
         state           |-> traditional.state,
         predictedIncome |-> RoundHundredths(traditional.predictedIncome * w.ml
                                             + ml.predictedIncome * w.traditional),
         confidence      |-> HybridConfidence(traditional, ml, w),
         methodology     |-> "hybrid",
         components      |-> [traditionalPrediction |-> traditional.predictedIncome,
                              traditionalConfidence |-> traditional.confidence,
                              mlPrediction          |-> ml.predictedIncome,
                              mlConfidence          |-> ml.confidence,
                              mlWeight              |-> w.ml,
                              traditionalWeight     |-> w.traditional,
                              disagreementPenalty   |-> HybridPenalty(traditional.predictedIncome,
                                                                      ml.predictedIncome)],
         explanation     |-> HybridExplanation(traditional, ml, w,
                                RoundHundredths(traditional.predictedIncome * w.ml
                                    + ml.predictedIncome * w.traditional),
                                HybridConfidence(traditional, ml, w))]

calculateHybridPrediction(traditional, ml) ==
    LET w == HybridWeights(traditional.confidence, ml.confidence)
    IN  [zipCode         |-> traditional.zipCode,
         state           |-> traditional.state,
         predictedIncome |-> RoundHundredths(traditional.predictedIncome * w.traditional
                                             + ml.predictedIncome * w.ml),
         confidence      |-> HybridConfidence(traditional, ml, w),
         methodology     |-> "hybrid",
         components      |-> [traditionalPrediction |-> traditional.predictedIncome,
                              traditionalConfidence |-> traditional.confidence,
                              mlPrediction          |-> ml.predictedIncome,
                              mlConfidence          |-> ml.confidence,
                              mlWeight              |-> w.ml,
                              traditionalWeight     |-> w.traditional,
                              disagreementPenalty   |-> HybridPenalty(traditional.predictedIncome,
                                                                      ml.predictedIncome)],
         explanation     |-> HybridExplanation(traditional, ml, w,
                                RoundHundredths(traditional.predictedIncome * w.traditional
                                    + ml.predictedIncome * w.ml),
                                HybridConfidence(traditional, ml, w))]

(***************************************************************************)
(* compare-methods: the ComparisonEngine                                   *)
(***************************************************************************)
MaxOf3(a, b, c) == Max(a, Max(b, c))

MinOf3(a, b, c) == Min(a, Min(b, c))

\* calculateAgreement([t, m, h]): with sum S and mean S/3 the largest
\* relative deviation is max |3p - S| / S.  S = 0 gives NaN or Infinity
\* ("low"); S < 0 gives quotients that are not positive ("high").
\* calculateAgreement with the 5% threshold included in "high".
calculateAgreementInclusive(t, m, h) ==
    LET S      == t + m + h
        maxDev == MaxOf3(Abs(3 * t - S), Abs(3 * m - S), Abs(3 * h - S))
    IN  IF S > 0
        THEN IF maxDev * 100 <= 5 * S THEN "high"
             ELSE IF maxDev * 100 < 15 * S THEN "medium"
             ELSE "low"
        ELSE IF S = 0 THEN "low"
        ELSE "high"

\* calculateAgreement with "medium" reaching up to a deviation of 25%.
calculateAgreementLoose(t, m, h) ==
    LET S      == t + m + h
        maxDev == MaxOf3(Abs(3 * t - S), Abs(3 * m - S), Abs(3 * h - S))
    IN  IF S > 0
        THEN IF maxDev * 100 < 5 * S THEN "high"
             ELSE IF maxDev * 100 < 25 * S THEN "medium"
             ELSE "low"
        ELSE IF S = 0 THEN "low"
        ELSE "high"

calculateAgreement(t, m, h) ==
    LET S      == t + m + h
        maxDev == MaxOf3(Abs(3 * t - S), Abs(3 * m - S), Abs(3 * h - S))
    IN  IF S > 0
        THEN IF maxDev * 100 < 5 * S THEN "high"
             ELSE IF maxDev * 100 < 15 * S THEN "medium"
             ELSE "low"
        ELSE IF S = 0 THEN "low"
        ELSE "high"

\* generateRecommendation answering hybrid on a medium agreement whatever
\* the confidences.
generateRecommendationHybridOnMedium(traditional, ml, hybrid, agreement) ==
    IF agreement = "high"
    THEN [recommended |-> "hybrid", reason |-> "agree-closely"]
    ELSE IF agreement = "medium"
    THEN [recommended |-> "hybrid", reason |-> "moderate-hybrid-balances"]
    ELSE [recommended |-> "traditional", reason |-> "disagree-significantly"]

generateRecommendation(traditional, ml, hybrid, agreement) ==
    IF agreement = "high"
    THEN [recommended |-> "hybrid", reason |-> "agree-closely"]
    ELSE IF agreement = "medium"
    THEN LET maxConfidence == MaxOf3(traditional.confidence, ml.confidence,
                                     hybrid.confidence)
         IN  IF hybrid.confidence = maxConfidence
             THEN [recommended |-> "hybrid", reason |-> "moderate-hybrid-balances"]
             ELSE IF ml.confidence = maxConfidence
             THEN [recommended |-> "ml", reason |-> "ml-highest-confidence"]
             ELSE [recommended |-> "traditional", reason |-> "traditional-stable"]
    ELSE [recommended |-> "traditional", reason |-> "disagree-significantly"]

\* 27 * variance as digits: with S the sum of the three predictions and
\* mean = S / 3, (p - mean)^2 = (3p - S)^2 / 9 and the variance is a third
\* of the sum of these.
SquaredDeviations(t, m, h) ==
    Apply(LAMBDA d :
            Apply(LAMBDA sq :
                    Apply(LAMBDA two : AddDigits(two, sq[3], 0),
                          AddDigits(sq[1], sq[2], 0)),
                  << MulDigits(ToDigits(d[1]), d[1], 0),
                     MulDigits(ToDigits(d[2]), d[2], 0),
                     MulDigits(ToDigits(d[3]), d[3], 0) >>),
          << Abs(3 * t - (t + m + h)), Abs(3 * m - (t + m + h)),
             Abs(3 * h - (t + m + h)) >>)

\* (q + add) \div k as an integer, for digit sequences q and add.
Quotient(q, add, k) ==
    Apply(LAMBDA x :
            Apply(LAMBDA sum :
                    Apply(LAMBDA quot : FromDigits(quot), DivDigits(sum, k, 0)),
                  AddDigits(x, add, 0)),
          q)

\* mean = predictions.reduce(...) / 3, in thirds of a dollar.
ReportMean(t, m, h) == t + m + h

\* Variance with the divisor n - 1 in place of n.
VarianceSample(t, m, h) == Quotient(SquaredDeviations(t, m, h), <<9>>, 18)

\* Math.round(variance): the sum of squared deviations over 27, rounded
\* (27 is odd, so no quotient lies half way).
Variance(t, m, h) == Quotient(SquaredDeviations(t, m, h), <<3, 1>>, 27)

\* The largest s in lo..(hi - 1) with s * (s - 1) <= f, or lo if there is
\* none.
RECURSIVE SqrtSearch(_, _, _)
SqrtSearch(lo, hi, f) ==
    IF hi - lo <= 1 THEN lo
    ELSE Apply(LAMBDA mid : IF mid * (mid - 1) <= f THEN SqrtSearch(mid, hi, f)
                            ELSE SqrtSearch(lo, mid, f),
               (lo + hi) \div 2)

\* Math.round(Math.sqrt(variance)): the largest s with s - 1/2 <=
\* sqrt(variance), that is (s - 1/2)^2 <= q / 27 for the sum q of squared
\* deviations, that is s * (s - 1) <= (q - 7) \div 27; 0 if there is none.
StdDev(t, m, h) ==
    Apply(LAMBDA f : SqrtSearch(0, 46341, f),
          Quotient(SquaredDeviations(t, m, h), <<0, 2>>, 27) - 1)

\* One entry of methods{} (timeMs, a wall-clock measurement, is left out).
MethodResult(data) ==
    [income      |-> data.predictedIncome,
     confidence  |-> data.confidence,
     methodology |-> data.methodology]

\* The ComparisonResponse built from the three fetched data objects.  The
\* deviations of agreementVisualization are in thirds of a dollar.
ComparisonReport(zipCode, traditionalData, mlData, hybridData) ==
    LET t   == traditionalData.predictedIncome
        m   == mlData.predictedIncome
        h   == hybridData.predictedIncome
        agr == calculateAgreement(t, m, h)
        rec == generateRecommendation(MethodResult(traditionalData), MethodResult(mlData),
                                      MethodResult(hybridData), agr)
    IN  [zipCode    |-> zipCode,
         state      |-> traditionalData.state,
         methods    |-> [traditional |-> MethodResult(traditionalData),
                         ml          |-> MethodResult(mlData),
                         hybrid      |-> MethodResult(hybridData)],
         comparison |-> [variance    |-> Variance(t, m, h),
                         standardDeviation |-> StdDev(t, m, h),
                         range       |-> [min    |-> MinOf3(t, m, h),
                                          max    |-> MaxOf3(t, m, h),
                                          spread |-> MaxOf3(t, m, h) - MinOf3(t, m, h)],
                         agreement   |-> agr,
                         recommended |-> rec.recommended,
                         recommendationReason |-> rec.reason],
         charts     |-> [methodComparison |->
                           << [method |-> "Traditional", income |-> t,
                               confidence |-> traditionalData.confidence],
                              [method |-> "Pure ML", income |-> m,
                               confidence |-> mlData.confidence],
                              [method |-> "Hybrid", income |-> h,
                               confidence |-> hybridData.confidence] >>,
                         confidenceComparison |->
                           << [method |-> "Traditional",
                               confidence |-> traditionalData.confidence],
                              [method |-> "Pure ML", confidence |-> mlData.confidence],
                              [method |-> "Hybrid", confidence |-> hybridData.confidence] >>,
                         agreementVisualization |->
                           << [method |-> "Traditional",
                               deviation |-> Abs(3 * t - ReportMean(t, m, h))],
                              [method |-> "Pure ML",
                               deviation |-> Abs(3 * m - ReportMean(t, m, h))],
                              [method |-> "Hybrid",
                               deviation |-> Abs(3 * h - ReportMean(t, m, h))] >>]]

(***************************************************************************)
(* State: the request tree of the request being served                     *)
(***************************************************************************)
\* reqs[1] is the client's request; the requests that handlers send with
\* fetch() follow it, each naming its parent.  pc is "sent" (on its way to
\* the handler), "await" (the handler awaits its sub-requests), "hung" (the
\* call never returns) or "done" (the response, or the rejection of the
\* fetch, is available).  lookups counts the reads of the lookup tables made
\* for the request.
\* A direct invocation of calculateHybridPrediction on two results is a
\* tree of its own: one entry that carries the two arguments.
\* served is the client's record of answers it has kept for comparison with
\* later ones; no handler reads it.
VARIABLES reqs, served

vars == <<reqs, served>>

Endpoints == {"predict-traditional", "predict-ml", "predict-hybrid", "compare-methods"}

Z12345 == <<"1", "2", "3", "4", "5">>

\* The zipCode values a client sends: known regions, a well-formed unknown
\* one, and malformed ones (absent, empty, too short, too long, a letter).
ZipInputs ==
    {Z10001, Z90001, Z60601, Z77001, Z33109, Z94027, Z12345,
     NoZip, <<>>, <<"1", "0", "0", "0">>, <<"1", "0", "0", "0", "1", "0">>,
     <<"1", "0", "0", "0", "a">>}

NoBody == [kind |-> "none"]

NewReq(endpoint, zipCode, parent) ==
    [endpoint |-> endpoint, zipCode |-> zipCode, parent |-> parent,
     pc |-> "sent", status |-> 0, body |-> NoBody, lookups |-> 0]

\* new Response(JSON.stringify(body), { status })
Respond(r, status, body, lookups) ==
    [r EXCEPT !.pc = "done", !.status = status, !.body = body,
              !.lookups = @ + lookups]

InvalidZipBody == [kind |-> "error", error |-> "Invalid ZIP code"]

SuccessBody(data) == [kind |-> "json", success |-> TRUE, data |-> data]

\* metadata.weightingStrategy of the success response of predict-hybrid,
\* '60% ML + 40% Traditional', in percent.
HybridMetadata == [weightingStrategy |-> [ml |-> 60, traditional |-> 40]]

\* weightingStrategy of the GET description of predict-hybrid, in percent.
HybridGetDescription == [weightingStrategy |-> [ml |-> 60, traditional |-> 40]]

\* The body of the success response of predict-hybrid.
HybridSuccessBody(data) ==
    [kind |-> "json", success |-> TRUE, data |-> data, metadata |-> HybridMetadata]

FailedBody(error, message) == [kind |-> "error", error |-> error, message |-> message]

Children(i) == {j \in 1..Len(reqs) : reqs[j].parent = i}

Child(i, endpoint) == CHOOSE j \in Children(i) : reqs[j].endpoint = endpoint

(***************************************************************************)
(* Handlers of the two leaf endpoints                                      *)
(***************************************************************************)
\* TraditionalResponse without the 404 branch: the lookup failure is thrown
\* by calculateTraditionalPrediction and caught.
TraditionalResponseNo404(zipCode) ==
    IF InvalidZip(zipCode)
    THEN [status |-> 400, body |-> InvalidZipBody, lookups |-> 0]
    ELSE LET r == calculateTraditionalPrediction(zipCode)
         IN  IF r.ok
             THEN [status |-> 200, body |-> SuccessBody(r.data), lookups |-> 2]
             ELSE [status |-> 500, body |-> FailedBody("Prediction failed", r.error),
                   lookups |-> 1]

\* onRequestPost of predict-traditional: status, body and table reads.
TraditionalResponse(zipCode) ==
    IF InvalidZip(zipCode)
    THEN [status |-> 400, body |-> InvalidZipBody, lookups |-> 0]
    ELSE IF zipCode \notin DOMAIN ZIP_ADJUSTMENTS
    THEN [status |-> 404, body |-> [kind |-> "error", error |-> "not yet supported"],
          lookups |-> 1]
    ELSE LET r == calculateTraditionalPrediction(zipCode)
         IN  IF r.ok
             THEN [status |-> 200, body |-> SuccessBody(r.data), lookups |-> 3]
             ELSE [status |-> 500, body |-> FailedBody("Prediction failed", r.error),
                   lookups |-> 3]

\* onRequestPost of predict-ml.
MLResponse(zipCode) ==
    IF InvalidZip(zipCode)
    THEN [status |-> 400, body |-> InvalidZipBody, lookups |-> 0]
    ELSE IF zipCode \notin DOMAIN ML_PREDICTIONS
    THEN [status |-> 404, body |-> [kind |-> "error", error |-> "not yet supported"],
          lookups |-> 1]
    ELSE LET r == getMLPrediction(zipCode)
         IN  IF r.ok
             THEN [status |-> 200, body |-> SuccessBody(r.data), lookups |-> 2]
             ELSE [status |-> 500, body |-> FailedBody("Prediction failed", r.error),
                   lookups |-> 2]

\* The response of predict-traditional depends on the request's zipCode
\* alone: one evaluation of the handler per input.
TraditionalResponses == [z \in ZipInputs |-> TraditionalResponse(z)]

\* HandleTraditional with a module-level counter of the answers given so far
\* added to the income.
HandleTraditionalDrifting(i) ==
    /\ reqs[i].endpoint = "predict-traditional"
    /\ reqs[i].pc = "sent"
    /\ LET resp == TraditionalResponses[reqs[i].zipCode]
           body == IF resp.status = 200
                   THEN [resp.body EXCEPT !.data.predictedIncome = @ + Len(served)]
                   ELSE resp.body
       IN  reqs' = [reqs EXCEPT ![i] = Respond(@, resp.status, body, resp.lookups)]
    /\ UNCHANGED served

HandleTraditional(i) ==
    /\ reqs[i].endpoint = "predict-traditional"
    /\ reqs[i].pc = "sent"
    /\ LET resp == TraditionalResponses[reqs[i].zipCode]
       IN  reqs' = [reqs EXCEPT ![i] = Respond(@, resp.status, resp.body, resp.lookups)]
    /\ UNCHANGED served

\* HandleML with a prediction that is adjusted by the answers given so far.
HandleMLLearning(i) ==
    /\ reqs[i].endpoint = "predict-ml"
    /\ reqs[i].pc = "sent"
    /\ LET resp == MLResponse(reqs[i].zipCode)
           body == IF resp.status = 200
                   THEN [resp.body EXCEPT !.data.predictedIncome = @ + 1000 * Len(served)]
                   ELSE resp.body
       IN  reqs' = [reqs EXCEPT ![i] = Respond(@, resp.status, body, resp.lookups)]
    /\ UNCHANGED served

HandleML(i) ==
    /\ reqs[i].endpoint = "predict-ml"
    /\ reqs[i].pc = "sent"
    /\ LET resp == MLResponse(reqs[i].zipCode)
       IN  reqs' = [reqs EXCEPT ![i] = Respond(@, resp.status, resp.body, resp.lookups)]
    /\ UNCHANGED served

(***************************************************************************)
(* fetch() and its wrappers                                                *)
(***************************************************************************)
\* response.ok
ResponseOk(c) == c.status >= 200 /\ c.status <= 299

\* The promise of one fetch wrapper, settled from the sub-request c:
\* pending, rejected (fetch rejected, response not ok, or body not JSON) or
\* fulfilled with result.data.
FetchPromise(c, failure) ==
    IF c.pc # "done" THEN [state |-> "pending"]
    ELSE IF c.body.kind = "neterror"
    THEN [state |-> "rejected", message |-> "fetch failed"]
    ELSE IF ~ResponseOk(c)
    THEN [state |-> "rejected", message |-> failure]
    ELSE IF c.body.kind # "json"
    THEN [state |-> "rejected", message |-> "Unexpected token"]
    ELSE [state |-> "fulfilled", data |-> c.body.data]

\* What a wrapper that swallows its failure would resolve to.
DefaultData(c) ==
    [zipCode |-> c.zipCode, state |-> "", predictedIncome |-> 0, confidence |-> 0,
     methodology |-> "default"]

\* fetchTraditionalPrediction resolving to a default instead of throwing.
fetchTraditionalPredictionDefault(c) ==
    LET p == FetchPromise(c, "Failed to fetch traditional prediction")
    IN  IF p.state = "rejected" THEN [state |-> "fulfilled", data |-> DefaultData(c)] ELSE p

fetchTraditionalPrediction(c) == FetchPromise(c, "Failed to fetch traditional prediction")

\* fetchMLPrediction resolving to a default instead of throwing.
fetchMLPredictionDefault(c) ==
    LET p == FetchPromise(c, "Failed to fetch ML prediction")
    IN  IF p.state = "rejected" THEN [state |-> "fulfilled", data |-> DefaultData(c)] ELSE p

fetchMLPrediction(c) == FetchPromise(c, "Failed to fetch ML prediction")

\* fetchMethodPrediction resolving to a default instead of throwing.
fetchMethodPredictionDefault(c) ==
    LET p == FetchPromise(c, "Failed to fetch prediction")
    IN  IF p.state = "rejected" THEN [state |-> "fulfilled", data |-> DefaultData(c)] ELSE p

\* fetchMethodPrediction giving up on a call that does not return and
\* resolving to a default.
fetchMethodPredictionGiveUp(c) ==
    LET p == FetchPromise(c, "Failed to fetch prediction")
    IN  IF c.pc = "hung" THEN [state |-> "fulfilled", data |-> DefaultData(c)] ELSE p

fetchMethodPrediction(c) == FetchPromise(c, "Failed to fetch prediction")

\* Promise.all over a set of promises: rejected as soon as one is rejected,
\* fulfilled when all are fulfilled, pending otherwise.
PromiseAll(ps) ==
    IF \E p \in ps : p.state = "rejected" THEN "rejected"
    ELSE IF \A p \in ps : p.state = "fulfilled" THEN "fulfilled"
    ELSE "pending"

(***************************************************************************)
(* predict-hybrid handler                                                  *)
(***************************************************************************)
\* Up to the await of Promise.all: validation, then both fetches are sent.
HybridStart(i) ==
    /\ reqs[i].endpoint = "predict-hybrid"
    /\ reqs[i].pc = "sent"
    /\ IF InvalidZip(reqs[i].zipCode)
       THEN reqs' = [reqs EXCEPT ![i] = Respond(@, 400, InvalidZipBody, 0)]
       ELSE reqs' = [reqs EXCEPT ![i].pc = "await"]
                      \o << NewReq("predict-traditional", reqs[i].zipCode, i),
                            NewReq("predict-ml", reqs[i].zipCode, i) >>
    /\ UNCHANGED served

\* HybridSettle with one more attempt for the sub-requests after the first
\* rejection.
HybridSettleRetrying(i) ==
    /\ reqs[i].endpoint = "predict-hybrid"
    /\ reqs[i].pc = "await"
    /\ LET pT == fetchTraditionalPrediction(reqs[Child(i, "predict-traditional")])
           pM == fetchMLPrediction(reqs[Child(i, "predict-ml")])
           all == PromiseAll({pT, pM})
       IN  /\ all # "pending"
           /\ IF all = "fulfilled"
              THEN reqs' = [reqs EXCEPT ![i] =
                      Respond(@, 200, HybridSuccessBody(calculateHybridPrediction(pT.data, pM.data)), 0)]
              ELSE IF Cardinality(Children(i)) = 2
              THEN reqs' = reqs \o << NewReq("predict-traditional", reqs[i].zipCode, i),
                                      NewReq("predict-ml", reqs[i].zipCode, i) >>
              ELSE \E p \in {pT, pM} :
                      /\ p.state = "rejected"
                      /\ reqs' = [reqs EXCEPT ![i] =
                            Respond(@, 500, FailedBody("Prediction failed", p.message), 0)]
    /\ UNCHANGED served

\* After the await: the combination and the 200, or the catch block's 500.
HybridSettle(i) ==
    /\ reqs[i].endpoint = "predict-hybrid"
    /\ reqs[i].pc = "await"
    /\ LET pT == fetchTraditionalPrediction(reqs[Child(i, "predict-traditional")])
           pM == fetchMLPrediction(reqs[Child(i, "predict-ml")])
           all == PromiseAll({pT, pM})
       IN  /\ all # "pending"
           /\ IF all = "fulfilled"
              THEN reqs' = [reqs EXCEPT ![i] =
                      Respond(@, 200, HybridSuccessBody(calculateHybridPrediction(pT.data, pM.data)), 0)]
              ELSE \E p \in {pT, pM} :
                      /\ p.state = "rejected"
                      /\ reqs' = [reqs EXCEPT ![i] =
                            Respond(@, 500, FailedBody("Prediction failed", p.message), 0)]
    /\ UNCHANGED served

(***************************************************************************)
(* compare-methods handler                                                 *)
(***************************************************************************)
CompareStart(i) ==
    /\ reqs[i].endpoint = "compare-methods"
    /\ reqs[i].pc = "sent"
    /\ IF InvalidZip(reqs[i].zipCode)
       THEN reqs' = [reqs EXCEPT ![i] = Respond(@, 400, InvalidZipBody, 0)]
       ELSE reqs' = [reqs EXCEPT ![i].pc = "await"]
                      \o << NewReq("predict-traditional", reqs[i].zipCode, i),
                            NewReq("predict-ml", reqs[i].zipCode, i),
                            NewReq("predict-hybrid", reqs[i].zipCode, i) >>
    /\ UNCHANGED served

CompareSettle(i) ==
    /\ reqs[i].endpoint = "compare-methods"
    /\ reqs[i].pc = "await"
    /\ LET pT == fetchMethodPrediction(reqs[Child(i, "predict-traditional")])
           pM == fetchMethodPrediction(reqs[Child(i, "predict-ml")])
           pH == fetchMethodPrediction(reqs[Child(i, "predict-hybrid")])
           all == PromiseAll({pT, pM, pH})
       IN  /\ all # "pending"
           /\ IF all = "fulfilled"
              THEN reqs' = [reqs EXCEPT ![i] =
                      Respond(@, 200, SuccessBody(ComparisonReport(reqs[i].zipCode,
                                                     pT.data, pM.data, pH.data)), 0)]
              ELSE \E p \in {pT, pM, pH} :
                      /\ p.state = "rejected"
                      /\ reqs' = [reqs EXCEPT ![i] =
                            Respond(@, 500, FailedBody("Comparison failed", p.message), 0)]
    /\ UNCHANGED served

(***************************************************************************)
(* The network between a handler and the endpoint it calls                 *)
(***************************************************************************)
\* What can happen to a sub-request instead of its handler answering it:
\* the fetch is rejected, a non-OK response comes from the platform, an OK
\* response carries a body that is not JSON, or the call never returns.
NetworkOutcomes == {"neterror", "unavailable", "garbled", "hang"}

NetworkFailure(i, outcome) ==
    /\ reqs[i].parent # 0
    /\ reqs[i].pc = "sent"
    /\ reqs' = [reqs EXCEPT ![i] =
          CASE outcome = "neterror"    -> Respond(@, 0, [kind |-> "neterror"], 0)
            [] outcome = "unavailable" -> Respond(@, 503, [kind |-> "html"], 0)
            [] outcome = "garbled"     -> Respond(@, 200, [kind |-> "html"], 0)
            [] outcome = "hang"        -> [@ EXCEPT !.pc = "hung"]]
    /\ UNCHANGED served

(***************************************************************************)
(* Direct invocations of the HybridCombiner                                *)
(***************************************************************************)
\* Largest distance below 1.00, in hundredths, of the confidences tried.
MaxConfidenceGap == 15

\* Largest income tried, in units of IncomeUnit dollars.
MaxIncomeUnits == 6

IncomeUnit == 10^4

\* Confidences of the two arguments: the upper range in steps of 0.01, two
\* low values, and one value on either side of [0, 1].
ConfidenceInputs ==
    {(100 - k) * Cent : k \in 0..MaxConfidenceGap} \cup {-5 * Cent, 0, 50 * Cent, 105 * Cent}

\* Incomes of the two arguments: multiples of IncomeUnit, and one income
\* just over 25% below IncomeUnit.
IncomeInputs == {k * IncomeUnit : k \in 0..MaxIncomeUnits} \cup {7495}

\* The statistical argument is a result for 10001; the ML argument is a
\* result for the same region or for another one.
TraditionalArgs ==
    {[zipCode |-> Z10001, state |-> "NY", predictedIncome |-> p, confidence |-> c,
      methodology |-> "traditional"] : p \in IncomeInputs, c \in ConfidenceInputs}

MLArgs ==
    {[zipCode |-> z, state |-> ML_PREDICTIONS[z].state, predictedIncome |-> p,
      confidence |-> c, methodology |-> "ml"] :
        z \in {Z10001, Z90001}, p \in IncomeInputs, c \in ConfidenceInputs}

Invoke(traditional, ml) ==
    /\ reqs = <<>>
    /\ reqs' = << [endpoint |-> "calculateHybridPrediction", zipCode |-> traditional.zipCode,
                   parent |-> 0, pc |-> "sent", status |-> 0, body |-> NoBody,
                   lookups |-> 0, traditional |-> traditional, ml |-> ml] >>
    /\ UNCHANGED served

\* The call returns its result (the function has no throw statement).
Combine(i) ==
    /\ reqs[i].endpoint = "calculateHybridPrediction"
    /\ reqs[i].pc = "sent"
    /\ reqs' = [reqs EXCEPT ![i] =
          Respond(@, 0, [kind |-> "result",
                         data |-> calculateHybridPrediction(reqs[i].traditional, reqs[i].ml)], 0)]
    /\ UNCHANGED served

(***************************************************************************)
(* Direct invocations of the report computation of compare-methods         *)
(***************************************************************************)
\* Number of income steps tried on either side of the middle income.
MaxReportSteps == 3

\* Incomes of the three results: steps of 5 around 100 (so that relative
\* deviations of exactly 0.05 and 0.15 occur), zero and a large income.
ReportIncomes ==
    {100 + 5 * k : k \in -MaxReportSteps..MaxReportSteps} \cup {0, 60000}

ReportConfidences == {90 * Cent, 93 * Cent, 95 * Cent}

ReportArgs(methodology) ==
    {[zipCode |-> Z10001, state |-> "NY", predictedIncome |-> p, confidence |-> c,
      methodology |-> methodology] : p \in ReportIncomes, c \in ReportConfidences}

\* The record of a report computed outside a request: the three results
\* and the report; combined tells that the hybrid result is the combiner's
\* result for the two others.
ReportRecord(traditional, ml, hybrid, combined) ==
    [endpoint |-> "ComparisonReport", zipCode |-> traditional.zipCode, parent |-> 0,
     pc |-> "done", status |-> 0, lookups |-> 0,
     traditional |-> traditional, ml |-> ml, hybrid |-> hybrid, combined |-> combined,
     body |-> [kind |-> "report",
               data |-> ComparisonReport(traditional.zipCode, traditional, ml, hybrid)]]

\* Lines 379-503 of the handler applied to three given results.
InvokeReport(traditional, ml, hybrid) ==
    /\ reqs = <<>>
    /\ reqs' = << ReportRecord(traditional, ml, hybrid, FALSE) >>
    /\ UNCHANGED served

\* The same lines applied to two results and the combiner's result for
\* them.
ReportCombined ==
    /\ reqs # <<>>
    /\ reqs[1].endpoint = "calculateHybridPrediction"
    /\ reqs[1].pc = "done"
    /\ reqs' = << ReportRecord(reqs[1].traditional, reqs[1].ml, reqs[1].body.data, TRUE) >>
    /\ UNCHANGED served

(***************************************************************************)
(* The client                                                              *)
(***************************************************************************)
\* A client sends one request at a time, and drops the tree of a request
\* when it has the answer.
NewRequest(endpoint, zipCode) ==
    /\ reqs = <<>>
    /\ reqs' = << NewReq(endpoint, zipCode, 0) >>
    /\ UNCHANGED served

Receive ==
    /\ reqs # <<>>
    /\ reqs[1].pc = "done"
    /\ reqs' = <<>>
    /\ UNCHANGED served

Init == reqs = <<>> /\ served = <<>>

Handlers ==
    \/ \E i \in 1..Len(reqs) : HandleTraditional(i)
    \/ \E i \in 1..Len(reqs) : HandleML(i)
    \/ \E i \in 1..Len(reqs) : HybridStart(i)
    \/ \E i \in 1..Len(reqs) : HybridSettle(i)
    \/ \E i \in 1..Len(reqs) : CompareStart(i)
    \/ \E i \in 1..Len(reqs) : CompareSettle(i)
    \/ \E i \in 1..Len(reqs) : Combine(i)

Next ==
    \/ reqs = <<>> /\ \E e \in Endpoints, z \in ZipInputs : NewRequest(e, z)
    \/ reqs = <<>> /\ \E t \in TraditionalArgs, m \in MLArgs : Invoke(t, m)
    \/ reqs = <<>> /\ \E t \in ReportArgs("traditional"), m \in ReportArgs("ml"),
                          h \in ReportArgs("hybrid") : InvokeReport(t, m, h)
    \/ ReportCombined
    \/ Receive
    \/ Handlers
    \/ \E i \in 1..Len(reqs), o \in NetworkOutcomes : NetworkFailure(i, o)

Spec == Init /\ [][Next]_vars

\* The event loop runs every continuation that is ready, and the client
\* takes an answer that is there; nothing obliges the network to deliver.
FairSpec == Spec /\ WF_vars(Handlers) /\ WF_vars(Receive)

(***************************************************************************)
(* The StatisticalEstimator on any RegionIndicators record                 *)
(***************************************************************************)
\* Number of cost-of-living indexes tried above the threshold 1.3, in steps
\* of one hundredth.
MaxIndexSteps == 2

\* Cost-of-living indexes, in thousandths: zero, one below 1, the threshold,
\* the steps above it, New York's, the first index whose dampened factor is
\* above 1.3 again, and a large one.
IndexInputs ==
    {0, 950, 1300, 1450, 1470, 2000} \cup {1300 + 10 * k : k \in 1..MaxIndexSteps}

\* Unemployment rates in thousandths: none, New York's, either side of one
\* third, and all.
UnemploymentInputs == {0, 42, 333, 334, 1000}

\* Records of STATE_DATA within the data-model invariant: the fractions in
\* [0, 1], a positive median, a non-negative cost-of-living index.
RegionIndicators ==
    [medianIncome : {1, 59000, 72000}, costOfLivingIndex : IndexInputs,
     unemploymentRate : UnemploymentInputs, educationIndex : {0, 780, 1000},
     youngProfessionalRatio : {0, 650}, gdpGrowthRate : {28}]

\* Records of ZIP_ADJUSTMENTS with a positive adjustment factor.
ZipIndicators == [state : {"NY"}, adjustmentFactor : {68, 135}, ranking : {"high"}]

\* The ML results the statistical result is combined with.
EstimatorMLArgs ==
    {[zipCode |-> Z10001, state |-> "NY", predictedIncome |-> p, confidence |-> 95 * Cent,
      methodology |-> "ml"] : p \in {1, 88500}}

\* A call of lines 128-206 for the two records of one region.
EstimatorCall(stateData, zipData) ==
    [endpoint |-> "calculateTraditionalPrediction", zipCode |-> Z10001, parent |-> 0,
     pc |-> "sent", status |-> 0, body |-> NoBody, lookups |-> 0,
     stateData |-> stateData, zipData |-> zipData]

\* Two regions that differ at most in their cost-of-living index.
EstimatorInit ==
    /\ served = <<>>
    /\ \E stateData \in RegionIndicators, zipData \in ZipIndicators, index \in IndexInputs :
          reqs = << EstimatorCall(stateData, zipData),
                    EstimatorCall([stateData EXCEPT !.costOfLivingIndex = index], zipData) >>

\* The call returns its result.
Estimate(i) ==
    /\ reqs[i].endpoint = "calculateTraditionalPrediction"
    /\ reqs[i].pc = "sent"
    /\ reqs' = [reqs EXCEPT ![i] =
          Respond(@, 0, [kind |-> "result",
                         data |-> TraditionalPrediction(reqs[i].zipCode, reqs[i].zipData,
                                                        reqs[i].stateData)], 0)]
    /\ UNCHANGED served

\* calculateHybridPrediction applied to the result and an ML result.
CombineEstimate(i, ml) ==
    /\ reqs[i].endpoint = "calculateTraditionalPrediction"
    /\ reqs[i].pc = "done"
    /\ reqs' = [reqs EXCEPT ![i] =
          [@ EXCEPT !.pc = "combined",
                    !.body = [kind |-> "combined", data |-> reqs[i].body.data, ml |-> ml,
                              hybrid |-> calculateHybridPrediction(reqs[i].body.data, ml)]]]
    /\ UNCHANGED served

EstimatorNext ==
    \/ \E i \in 1..Len(reqs) : Estimate(i)
    \/ \E i \in 1..Len(reqs), ml \in EstimatorMLArgs : CombineEstimate(i, ml)

EstimatorSpec == EstimatorInit /\ [][EstimatorNext]_vars

(***************************************************************************)
(* Two invocations of the HybridCombiner side by side                      *)
(***************************************************************************)
\* Largest distance below 1.00, in hundredths, of the confidences of the
\* two invocations.
MaxPairGap == 8

PairConfidences == {(100 - k) * Cent : k \in 0..MaxPairGap}

PairTraditionalArgs ==
    {[zipCode |-> Z10001, state |-> "NY", predictedIncome |-> 132449, confidence |-> c,
      methodology |-> "traditional"] : c \in PairConfidences}

PairMLArgs ==
    {[zipCode |-> Z10001, state |-> "NY", predictedIncome |-> 88500, confidence |-> c,
      methodology |-> "ml"] : c \in PairConfidences}

\* A call of calculateHybridPrediction that has not returned yet.
CombinerCall(traditional, ml) ==
    [endpoint |-> "calculateHybridPrediction", zipCode |-> traditional.zipCode,
     parent |-> 0, pc |-> "sent", status |-> 0, body |-> NoBody,
     lookups |-> 0, traditional |-> traditional, ml |-> ml]

PairInit ==
    /\ served = <<>>
    /\ \E t1 \in PairTraditionalArgs, m1 \in PairMLArgs,
          t2 \in PairTraditionalArgs, m2 \in PairMLArgs :
          reqs = << CombinerCall(t1, m1), CombinerCall(t2, m2) >>

PairNext == \E i \in 1..Len(reqs) : Combine(i)

PairSpec == PairInit /\ [][PairNext]_vars

(***************************************************************************)
(* A session: the client keeps answers and compares later ones with them   *)
(***************************************************************************)
\* Number of answers the client keeps.
MaxKept == 1

SessionZips == {Z10001, Z77001, Z12345}

\* What the client keeps of an answer.
Answer(r) ==
    [endpoint |-> r.endpoint, zipCode |-> r.zipCode, status |-> r.status, body |-> r.body]

\* The client takes the answer and keeps it.
Keep ==
    /\ reqs # <<>>
    /\ reqs[1].pc = "done"
    /\ Len(served) < MaxKept
    /\ served' = Append(served, Answer(reqs[1]))
    /\ reqs' = <<>>

SessionNext ==
    \/ reqs = <<>> /\ \E e \in Endpoints, z \in SessionZips : NewRequest(e, z)
    \/ Receive
    \/ Keep
    \/ \E i \in 1..Len(reqs) : HandleTraditional(i)
    \/ \E i \in 1..Len(reqs) : HandleML(i)
    \/ \E i \in 1..Len(reqs) : HybridStart(i)
    \/ \E i \in 1..Len(reqs) : HybridSettle(i)
    \/ \E i \in 1..Len(reqs) : CompareStart(i)
    \/ \E i \in 1..Len(reqs) : CompareSettle(i)
    \/ \E i \in 1..Len(reqs) : NetworkFailure(i, "unavailable")

SessionSpec == Init /\ [][SessionNext]_vars

(***************************************************************************)
(* Properties                                                              *)
(***************************************************************************)
\* C1: every result of calculateHybridPrediction, from a direct invocation
\* with any two confidences or from predict-hybrid, has weights with
\* wML + wStat = 1, wML in [0, 0.82] and wStat in [0, 0.42].
WeightInvariant ==
    \A i \in 1..Len(reqs) :
        (/\ reqs[i].endpoint \in {"calculateHybridPrediction", "predict-hybrid"}
         /\ reqs[i].pc = "done"
         /\ reqs[i].body.kind \in {"result", "json"})
        => LET c == reqs[i].body.data.components
           IN  /\ c.mlWeight + c.traditionalWeight = 100
               /\ c.mlWeight >= 0 /\ c.mlWeight <= 82
               /\ c.traditionalWeight >= 0 /\ c.traditionalWeight <= 42

\* C1 witness: an invocation where the statistical result is the more
\* confident one by more than 0.06 has returned.
WeightShiftedToTraditional ==
    \E i \in 1..Len(reqs) :
        /\ reqs[i].endpoint = "calculateHybridPrediction"
        /\ reqs[i].pc = "done"
        /\ reqs[i].ml.confidence - reqs[i].traditional.confidence < -(6 * Cent)
        /\ reqs[i].body.data.components.traditionalWeight = 42

\* C2: every prediction answered by predict-traditional, predict-ml and
\* predict-hybrid has a confidence in [0, 1], and a direct invocation of
\* the combiner on confidences in [0, 1] and positive incomes returns a
\* confidence of at most 0.99.
ConfidenceBounds ==
    \A i \in 1..Len(reqs) :
        /\ (/\ reqs[i].endpoint \in {"predict-traditional", "predict-ml", "predict-hybrid"}
            /\ reqs[i].pc = "done"
            /\ reqs[i].body.kind = "json")
           => /\ reqs[i].body.data.confidence >= 0
              /\ reqs[i].body.data.confidence <= 10^8
        /\ (/\ reqs[i].endpoint = "calculateHybridPrediction"
            /\ reqs[i].pc = "done"
            /\ reqs[i].traditional.confidence >= 0 /\ reqs[i].traditional.confidence <= 10^8
            /\ reqs[i].ml.confidence >= 0 /\ reqs[i].ml.confidence <= 10^8
            /\ reqs[i].traditional.predictedIncome > 0
            /\ reqs[i].ml.predictedIncome > 0)
           => /\ reqs[i].body.data.confidence >= 0
              /\ reqs[i].body.data.confidence <= 99 * 10^6

\* C2 witness: two confident results that agree have been combined, and the
\* boosted average was cut to exactly 0.99.
ConfidenceCapReached ==
    \E i \in 1..Len(reqs) :
        /\ reqs[i].endpoint = "calculateHybridPrediction"
        /\ reqs[i].pc = "done"
        /\ reqs[i].traditional.confidence = 98 * 10^6
        /\ reqs[i].ml.confidence = 10^8
        /\ reqs[i].traditional.predictedIncome = reqs[i].ml.predictedIncome
        /\ reqs[i].traditional.predictedIncome > 0
        /\ reqs[i].body.data.confidence = 99 * 10^6

MalformedRejectedFirst ==
    \A i \in 1..Len(reqs) :
        LET z == reqs[i].zipCode
            malformed == \/ z = NoZip
                         \/ Len(z) # 5
                         \/ \E k \in 1..Len(z) : z[k] \notin DIGITS
        IN  (reqs[i].endpoint \in Endpoints /\ malformed)
            => /\ reqs[i].lookups = 0
               /\ \A j \in 1..Len(reqs) : reqs[j].parent # i
               /\ reqs[i].pc \in {"sent", "done"}
               /\ reqs[i].pc = "done" => reqs[i].status = 400

\* C4 witness: compare-methods has answered a six-digit id.
SixDigitsRejected ==
    /\ reqs # <<>>
    /\ reqs[1].endpoint = "compare-methods"
    /\ Len(reqs[1].zipCode) = 6
    /\ reqs[1].pc = "done"
    /\ reqs[1].status = 400

\* C5: the answer of the predict-traditional and predict-ml handlers to a
\* well-formed id that is not in their table is a 404 without a prediction.
UnknownRegionIs404 ==
    \A i \in 1..Len(reqs) :
        LET z == reqs[i].zipCode
            wellFormed == z # NoZip /\ Len(z) = 5 /\ \A k \in 1..Len(z) : z[k] \in DIGITS
            known == IF reqs[i].endpoint = "predict-traditional"
                     THEN z \in DOMAIN ZIP_ADJUSTMENTS
                     ELSE z \in DOMAIN ML_PREDICTIONS
        IN  (/\ reqs[i].endpoint \in {"predict-traditional", "predict-ml"}
             /\ wellFormed /\ ~known
             /\ reqs[i].pc = "done"
             /\ reqs[i].body.kind \in {"json", "error"})
            => /\ reqs[i].status = 404
               /\ reqs[i].body.kind = "error"

\* C5 witness: predict-traditional has answered a client's request for 12345.
UnknownRegionAnswered ==
    /\ reqs # <<>>
    /\ reqs[1].endpoint = "predict-traditional"
    /\ reqs[1].zipCode = Z12345
    /\ reqs[1].pc = "done"
    /\ reqs[1].status = 404

\* C6 as claimed: the answer of predict-hybrid and compare-methods to a
\* well-formed id unknown to the reference store is a 404.
UnknownRegionPropagates404 ==
    \A i \in 1..Len(reqs) :
        LET z == reqs[i].zipCode
            wellFormed == z # NoZip /\ Len(z) = 5 /\ \A k \in 1..Len(z) : z[k] \in DIGITS
        IN  (/\ reqs[i].endpoint \in {"predict-hybrid", "compare-methods"}
             /\ wellFormed /\ z \notin DOMAIN ZIP_ADJUSTMENTS
             /\ reqs[i].pc = "done"
             /\ reqs[i].body.kind \in {"json", "error"})
            => reqs[i].status = 404

ComparisonAllOrNothing ==
    \A i \in 1..Len(reqs) :
        LET kids == {j \in 1..Len(reqs) : reqs[j].parent = i}
            succeeded(j) == /\ reqs[j].pc = "done"
                            /\ reqs[j].status = 200
                            /\ reqs[j].body.kind = "json"
            failed(j) == reqs[j].pc = "done" /\ ~succeeded(j)
        IN  (reqs[i].endpoint = "compare-methods" /\ reqs[i].pc = "done")
            => /\ reqs[i].status = 200
                    => /\ Cardinality(kids) = 3
                       /\ \A j \in kids : succeeded(j)
                       /\ reqs[i].body.kind = "json"
               /\ (\E j \in kids : failed(j))
                    => /\ reqs[i].status # 200
                       /\ reqs[i].body.kind = "error"
               /\ reqs[i].status # 200 => "data" \notin DOMAIN reqs[i].body

\* C8 witness: compare-methods has answered a request of which the
\* statistical and the ML sub-prediction succeeded and the hybrid one failed.
ComparisonFailedOnHybridOnly ==
    /\ reqs # <<>>
    /\ reqs[1].endpoint = "compare-methods"
    /\ reqs[1].pc = "done"
    /\ reqs[1].status = 500
    /\ \E t, m, h \in 1..Len(reqs) :
          /\ reqs[t].parent = 1 /\ reqs[t].endpoint = "predict-traditional"
          /\ reqs[t].pc = "done" /\ reqs[t].status = 200 /\ reqs[t].body.kind = "json"
          /\ reqs[m].parent = 1 /\ reqs[m].endpoint = "predict-ml"
          /\ reqs[m].pc = "done" /\ reqs[m].status = 200 /\ reqs[m].body.kind = "json"
          /\ reqs[h].parent = 1 /\ reqs[h].endpoint = "predict-hybrid"
          /\ reqs[h].pc = "done" /\ reqs[h].status = 500

ReportHybridFromReportEntries ==
    \A i \in 1..Len(reqs) :
        (/\ reqs[i].endpoint = "compare-methods"
         /\ reqs[i].pc = "done"
         /\ reqs[i].status = 200)
        => LET t    == reqs[i].body.data.methods.traditional
               m    == reqs[i].body.data.methods.ml
               h    == reqs[i].body.data.methods.hybrid
               diff == m.confidence - t.confidence
               wML  == IF diff > 6 * 10^6 THEN 82
                       ELSE IF diff < -(6 * 10^6) THEN 58
                       ELSE IF diff > -(2 * 10^6) /\ diff < 2 * 10^6 THEN 65
                       ELSE 68
               x    == (100 - wML) * t.income + wML * m.income
           IN  /\ 100 * h.income <= x + 50
               /\ 100 * h.income > x - 50
               /\ \E k \in 1..Len(reqs) :
                     /\ reqs[k].parent = i
                     /\ reqs[k].endpoint = "predict-hybrid"
                     /\ reqs[k].body.data.predictedIncome = h.income
                     /\ reqs[k].body.data.confidence = h.confidence
                     /\ reqs[k].body.data.components.traditionalPrediction = t.income
                     /\ reqs[k].body.data.components.traditionalConfidence = t.confidence
                     /\ reqs[k].body.data.components.mlPrediction = m.income
                     /\ reqs[k].body.data.components.mlConfidence = m.confidence

\* C10 witness: a report for 10001, whose statistical and ML incomes differ
\* and whose confidences are within 0.02 of each other, has been sent.
ReportFor10001 ==
    /\ reqs # <<>>
    /\ reqs[1].endpoint = "compare-methods"
    /\ reqs[1].zipCode = Z10001
    /\ reqs[1].pc = "done"
    /\ reqs[1].status = 200
    /\ reqs[1].body.data.methods.traditional.income # reqs[1].body.data.methods.ml.income
    /\ reqs[1].body.data.methods.hybrid.income = 103882


\* The reports in the state: the data of the 200 responses of
\* compare-methods and of the reports computed from given results.
Reports ==
    {reqs[i].body.data : i \in {k \in 1..Len(reqs) :
        \/ /\ reqs[k].endpoint = "compare-methods"
           /\ reqs[k].pc = "done"
           /\ reqs[k].status = 200
        \/ reqs[k].endpoint = "ComparisonReport"}}

\* C11: in every report the recommended method follows the decision
\* table: hybrid on a high agreement, traditional on a low agreement, and on
\* a medium agreement a method whose confidence is at least the confidence
\* of each of the three methods.
RecommendationFollowsTable ==
    \A r \in Reports :
        LET c == r.comparison
        IN  /\ c.agreement \in {"high", "medium", "low"}
            /\ c.recommended \in {"traditional", "ml", "hybrid"}
            /\ c.agreement = "high" => c.recommended = "hybrid"
            /\ c.agreement = "low" => c.recommended = "traditional"
            /\ c.agreement = "medium" =>
                  \A k \in {"traditional", "ml", "hybrid"} :
                      r.methods[c.recommended].confidence >= r.methods[k].confidence

\* C11 witness: a report with a medium agreement recommends traditional,
\* whose confidence is above the two others.
MediumRecommendsTraditional ==
    \E r \in Reports :
        /\ r.comparison.agreement = "medium"
        /\ r.comparison.recommended = "traditional"
        /\ r.methods.traditional.confidence > r.methods.ml.confidence
        /\ r.methods.traditional.confidence > r.methods.hybrid.confidence

\* C12: for three positive predictions the agreement is high exactly when
\* the largest relative deviation from the mean is below 0.05, medium
\* exactly when it is at least 0.05 and below 0.15, and low otherwise; and
\* against each of a few fixed triples, the report with the smaller largest
\* deviation never has the looser classification.
AgreementByDeviation ==
    \A r \in Reports :
        LET t      == r.methods.traditional.income
            m      == r.methods.ml.income
            h      == r.methods.hybrid.income
            S      == t + m + h
            dev(a, b, c) == MaxOf3(Abs(2 * a - b - c), Abs(2 * b - a - c),
                                   Abs(2 * c - a - b))
            rank(a) == CASE a = "high" -> 0 [] a = "medium" -> 1 [] a = "low" -> 2
            agr    == r.comparison.agreement
            others == {<<100, 100, 100>>, <<96, 100, 104>>, <<95, 100, 105>>,
                       <<90, 100, 110>>, <<86, 100, 114>>, <<85, 100, 115>>}
        IN  (t > 0 /\ m > 0 /\ h > 0) =>
              /\ agr = "high" <=> 100 * dev(t, m, h) < 5 * S
              /\ agr = "medium" <=> /\ 100 * dev(t, m, h) >= 5 * S
                                    /\ 100 * dev(t, m, h) < 15 * S
              /\ agr = "low" <=> 100 * dev(t, m, h) >= 15 * S
              /\ \A x \in others :
                    LET Sx == x[1] + x[2] + x[3]
                        ax == calculateAgreement(x[1], x[2], x[3])
                    IN  /\ dev(t, m, h) * Sx <= dev(x[1], x[2], x[3]) * S
                             => rank(agr) <= rank(ax)
                        /\ dev(x[1], x[2], x[3]) * S <= dev(t, m, h) * Sx
                             => rank(ax) <= rank(agr)

\* C12 witness: a report on 95, 100 and 105, whose largest relative
\* deviation is exactly 0.05, classified as medium.
DeviationOfFivePercentIsMedium ==
    \E r \in Reports :
        /\ r.methods.traditional.income = 95
        /\ r.methods.ml.income = 100
        /\ r.methods.hybrid.income = 105
        /\ r.comparison.agreement = "medium"

\* C13: whenever the statistical and the ML income of a report, both
\* positive and with confidences in [0, 1], differ by more than 25% of the
\* larger one and the hybrid entry is the combiner's result for them, the
\* report recommends traditional.
QuarterApartRecommendsTraditional ==
    \A i \in 1..Len(reqs) :
        (\/ /\ reqs[i].endpoint = "compare-methods"
            /\ reqs[i].pc = "done"
            /\ reqs[i].status = 200
         \/ /\ reqs[i].endpoint = "ComparisonReport"
            /\ reqs[i].combined)
        => LET r == reqs[i].body.data
               t == r.methods.traditional
               m == r.methods.ml
           IN  (/\ t.income > 0 /\ m.income > 0
                /\ t.confidence >= 0 /\ t.confidence <= 100 * Cent
                /\ m.confidence >= 0 /\ m.confidence <= 100 * Cent
                /\ 100 * Abs(t.income - m.income) > 25 * Max(t.income, m.income))
               => r.comparison.recommended = "traditional"

\* C13 witness: a report on a statistical income of 7495 and an ML income of
\* 10000 (25.05% apart) with the combiner's hybrid income, whose agreement
\* is only medium.
QuarterApartYetMedium ==
    \E i \in 1..Len(reqs) :
        /\ reqs[i].endpoint = "ComparisonReport"
        /\ reqs[i].combined
        /\ reqs[i].traditional.predictedIncome = 7495
        /\ reqs[i].ml.predictedIncome = 10000
        /\ reqs[i].body.data.comparison.agreement = "medium"
        /\ reqs[i].body.data.comparison.recommended = "traditional"

\* C14 as claimed: the variance of a report is exactly
\* ((a-m)^2 + (b-m)^2 + (c-m)^2) / 3 for its three incomes a, b, c with
\* mean m, that is 27 * variance is the sum of the (3p - (a+b+c))^2, and
\* the spread is the largest income minus the smallest.
ReportedVarianceIsExact ==
    \A r \in Reports :
        LET a == r.methods.traditional.income
            b == r.methods.ml.income
            c == r.methods.hybrid.income
            sq(p) == Apply(LAMBDA d : MulDigits(ToDigits(d), d, 0), Abs(3 * p - (a + b + c)))
            q == Apply(LAMBDA x : Apply(LAMBDA y : AddDigits(y, x[3], 0),
                                        AddDigits(x[1], x[2], 0)),
                       << sq(a), sq(b), sq(c) >>)
        IN  /\ MulDigits(ToDigits(r.comparison.variance), 27, 0) = q
            /\ \A x, y \in {a, b, c} : r.comparison.range.spread >= x - y
            /\ \E x, y \in {a, b, c} : r.comparison.range.spread = x - y

\* C14 amended: the variance of a report is that quotient rounded to the
\* nearest integer, that is 27 * variance is within 13 of the sum of the
\* (3p - (a+b+c))^2, and the spread is the largest income minus the
\* smallest.
ReportedVarianceIsRounded ==
    \A r \in Reports :
        LET a == r.methods.traditional.income
            b == r.methods.ml.income
            c == r.methods.hybrid.income
            sq(p) == Apply(LAMBDA d : MulDigits(ToDigits(d), d, 0), Abs(3 * p - (a + b + c)))
            q == Apply(LAMBDA x : Apply(LAMBDA y : AddDigits(y, x[3], 0),
                                        AddDigits(x[1], x[2], 0)),
                       << sq(a), sq(b), sq(c) >>)
        IN  /\ r.comparison.variance >= 0
            /\ Apply(LAMBDA x : /\ LeqDigits(x[1], AddDigits(x[2], <<3, 1>>, 0))
                                /\ LeqDigits(x[2], AddDigits(x[1], <<3, 1>>, 0)),
                     << MulDigits(ToDigits(r.comparison.variance), 27, 0), q >>)
            /\ \A x, y \in {a, b, c} : r.comparison.range.spread >= x - y
            /\ \E x, y \in {a, b, c} : r.comparison.range.spread = x - y

\* C14 witness: the report of compare-methods for 10001, whose incomes
\* 132449, 88500 and 103882 have the variance 331577112.67, with the
\* variance 331577113 and the spread 43949.
VarianceRoundedFor10001 ==
    /\ reqs # <<>>
    /\ reqs[1].endpoint = "compare-methods"
    /\ reqs[1].zipCode = Z10001
    /\ reqs[1].pc = "done"
    /\ reqs[1].status = 200
    /\ reqs[1].body.data.comparison.variance = 331577113
    /\ reqs[1].body.data.comparison.range.spread = 43949

\* The results of the combiner in the state: of its direct invocations and
\* of the 200 responses of predict-hybrid.
HybridResults ==
    {reqs[i].body.data : i \in {k \in 1..Len(reqs) :
        /\ reqs[k].pc = "done"
        /\ \/ reqs[k].endpoint = "calculateHybridPrediction"
           \/ /\ reqs[k].endpoint = "predict-hybrid"
              /\ reqs[k].status = 200
              /\ reqs[k].body.kind = "json"}}

TraditionalResults ==
    {reqs[i].body.data : i \in {k \in 1..Len(reqs) :
        /\ reqs[k].endpoint = "predict-traditional"
        /\ reqs[k].pc = "done"
        /\ reqs[k].status = 200
        /\ reqs[k].body.kind = "json"}}

StatisticalAnswers ==
    {[zipCode |-> reqs[i].zipCode, data |-> reqs[i].body.data] :
        i \in {k \in 1..Len(reqs) : /\ reqs[k].endpoint = "predict-traditional"
                                     /\ reqs[k].pc = "done"
                                     /\ reqs[k].status = 200}}
    \cup
    {[zipCode |-> served[i].zipCode, data |-> served[i].body.data] :
        i \in {k \in 1..Len(served) : /\ served[k].endpoint = "predict-traditional"
                                       /\ served[k].status = 200}}

ExplanationMatchesComponents ==
    /\ \A d \in TraditionalResults :
          LET e == d.explanation
              c == d.components
          IN  /\ e.baseIncome = 100 * c.baseIncome
              /\ e.costOfLiving = ToFixed(c.costOfLivingIndex, 1000)
              /\ e.educationImpact = ToFixed(c.educationAdjustment - 100000, 100)
              /\ e.unemploymentReduction = ToFixed(1000 - c.unemploymentAdjustment, 1)
              /\ e.demographicsBonus = ToFixed(c.ageDistributionFactor - 10000, 10)
              /\ e.economicGrowth = ToFixed(c.regionalEconomicIndex - 10000, 10)
    /\ \A d \in HybridResults :
          LET e == d.explanation
              c == d.components
          IN  /\ e.traditionalWeight = ToFixed(c.traditionalWeight, 1)
              /\ e.mlWeight = ToFixed(c.mlWeight, 1)
              /\ (e.agreementLabel = "low - 4% penalty") <=> (c.disagreementPenalty = 96)

\* The calls of the estimator that have returned.
Estimated == {i \in 1..Len(reqs) : /\ reqs[i].endpoint = "calculateTraditionalPrediction"
                                   /\ reqs[i].pc \in {"done", "combined"}}

\* baseIncome * costOfLivingIndex * unemploymentAdjustment >= 0.5, for
\* positive factors (the product is in units of 10^-10).
HalfDollarOrMore(stateData, zipData) ==
    LET base  == stateData.medianIncome * zipData.adjustmentFactor
        col   == IF stateData.costOfLivingIndex > 1300
                 THEN 100000 + 65 * (stateData.costOfLivingIndex - 1000)
                 ELSE 100 * stateData.costOfLivingIndex
        unemp == 1000 - 3 * stateData.unemploymentRate
    IN  /\ col > 0
        /\ unemp > 0
        /\ Apply(LAMBDA p : LeqDigits(<<0, 0, 0, 0, 0, 0, 0, 0, 0, 5>>, p),
                 MulDigits(MulDigits(ToDigits(base), col, 0), unemp, 0))

Requested(i, endpoint) == {j \in Children(i) : reqs[j].endpoint = endpoint}

\* C22: no sub-prediction is requested twice: a predict-hybrid request
\* whose handler has passed the validation (it awaits, or has answered with
\* a status other than 400) has issued exactly one predict-traditional and
\* one predict-ml request, whether they are pending, have succeeded or have
\* failed, and also after its own response; a compare-methods request
\* likewise exactly one request to each of the three method endpoints; a
\* request that was not handled or was answered 400 has issued none, nor
\* have the two leaf endpoints.
NoSubPredictionRetried ==
    \A i \in 1..Len(reqs) :
        LET started == \/ reqs[i].pc = "await"
                       \/ /\ reqs[i].pc = "done"
                          /\ reqs[i].body.kind \in {"json", "error"}
                          /\ reqs[i].status # 400
        IN  /\ reqs[i].endpoint = "predict-hybrid" =>
                  IF started
                  THEN /\ Cardinality(Requested(i, "predict-traditional")) = 1
                       /\ Cardinality(Requested(i, "predict-ml")) = 1
                       /\ Cardinality(Children(i)) = 2
                  ELSE Children(i) = {}
            /\ reqs[i].endpoint = "compare-methods" =>
                  IF started
                  THEN /\ Cardinality(Requested(i, "predict-traditional")) = 1
                       /\ Cardinality(Requested(i, "predict-ml")) = 1
                       /\ Cardinality(Requested(i, "predict-hybrid")) = 1
                       /\ Cardinality(Children(i)) = 3
                  ELSE Children(i) = {}
            /\ reqs[i].endpoint \in {"predict-traditional", "predict-ml"} => Children(i) = {}

\* C22 witness: a predict-hybrid request has sent its error response after
\* its predict-ml request came back with 503, and the comparison that asked
\* for it has sent its error response too.
FailedMLNotRequestedAgain ==
    /\ reqs # <<>>
    /\ reqs[1].endpoint = "compare-methods"
    /\ reqs[1].pc = "done"
    /\ reqs[1].status = 500
    /\ \E h \in Requested(1, "predict-hybrid") :
          /\ reqs[h].pc = "done"
          /\ reqs[h].status = 500
          /\ \E m \in Requested(h, "predict-ml") : reqs[m].pc = "done" /\ reqs[m].status = 503

\* C23: in every success response of predict-hybrid the weight split of
\* metadata.weightingStrategy, which is also the split of the GET
\* description, is the split of data.components.weightingStrategy, and the
\* predicted income is the two predictions weighted by it.
AdvertisedSplitIsApplied ==
    \A i \in 1..Len(reqs) :
        ( /\ reqs[i].endpoint = "predict-hybrid"
          /\ reqs[i].pc = "done"
          /\ reqs[i].status = 200
          /\ reqs[i].body.kind = "json" )
        => LET adv == reqs[i].body.metadata.weightingStrategy
               c   == reqs[i].body.data.components
           IN  /\ adv = HybridGetDescription.weightingStrategy
               /\ adv.ml = ToFixed(c.mlWeight, 1)
               /\ adv.traditional = ToFixed(c.traditionalWeight, 1)
               /\ reqs[i].body.data.predictedIncome
                    = RoundHundredths(c.traditionalPrediction * adv.traditional
                                      + c.mlPrediction * adv.ml)

\* A sub-request that has come back without a usable result.
SubRequestFailed(c) ==
    c.pc = "done" /\ (c.body.kind = "neterror" \/ ~ResponseOk(c) \/ c.body.kind # "json")

\* The answers to predict-hybrid that its handler has built.
HybridHandled ==
    {i \in 1..Len(reqs) : /\ reqs[i].endpoint = "predict-hybrid"
                          /\ reqs[i].pc = "done"
                          /\ reqs[i].body.kind \in {"json", "error"}
                          /\ reqs[i].status # 400}

\* Fan-out and fan-in of predict-hybrid: a request that awaits has issued
\* both sub-requests; a 200 means that both came back with a result and
\* carries the combiner's result for them; a failed sub-request means 500
\* 'Prediction failed' with the message of a failed sub-request.
HybridFanOutFanIn ==
    /\ \A i \in 1..Len(reqs) :
          (reqs[i].endpoint = "predict-hybrid" /\ reqs[i].pc = "await") =>
              /\ Requested(i, "predict-traditional") # {}
              /\ Requested(i, "predict-ml") # {}
    /\ \A i \in HybridHandled :
          LET t == reqs[Child(i, "predict-traditional")]
              m == reqs[Child(i, "predict-ml")]
          IN  /\ reqs[i].status = 200 =>
                    /\ t.pc = "done" /\ ~SubRequestFailed(t)
                    /\ m.pc = "done" /\ ~SubRequestFailed(m)
                    /\ reqs[i].body.data = calculateHybridPrediction(t.body.data, m.body.data)
              /\ (SubRequestFailed(t) \/ SubRequestFailed(m)) =>
                    /\ reqs[i].status = 500
                    /\ reqs[i].body.kind = "error"
                    /\ reqs[i].body.error = "Prediction failed"
                    /\ \/ /\ SubRequestFailed(t)
                          /\ reqs[i].body.message = "Failed to fetch traditional prediction"
                       \/ /\ SubRequestFailed(m)
                          /\ reqs[i].body.message = "Failed to fetch ML prediction"

\* The kept answers to a predict-hybrid request like the client's request
\* that has just been answered.
KeptHybridAnswers ==
    {k \in 1..Len(served) : /\ reqs # <<>>
                            /\ 1 \in HybridHandled
                            /\ served[k].endpoint = "predict-hybrid"
                            /\ served[k].zipCode = reqs[1].zipCode
                            /\ served[k].body.kind \in {"json", "error"}}

CombinedReports ==
    {reqs[i].body.data : i \in {k \in 1..Len(reqs) :
        \/ /\ reqs[k].endpoint = "compare-methods"
           /\ reqs[k].pc = "done"
           /\ reqs[k].status = 200
        \/ /\ reqs[k].endpoint = "ComparisonReport"
           /\ reqs[k].combined}}

HybridIncomeBetween ==
    /\ \A d \in HybridResults :
          /\ d.predictedIncome >= Min(d.components.traditionalPrediction,
                                      d.components.mlPrediction)
          /\ d.predictedIncome <= Max(d.components.traditionalPrediction,
                                      d.components.mlPrediction)
    /\ \A r \in CombinedReports :
          LET t == r.methods.traditional.income
              m == r.methods.ml.income
          IN  /\ r.comparison.range.min = Min(t, m)
              /\ r.comparison.range.max = Max(t, m)
              /\ r.comparison.range.spread = Abs(t - m)

\* C26 witness: compare-methods has answered for 10001 with the hybrid
\* income 103882 strictly between 88500 and 132449, and the spread 43949.
HybridStrictlyBetweenFor10001 ==
    /\ reqs # <<>>
    /\ reqs[1].endpoint = "compare-methods"
    /\ reqs[1].pc = "done"
    /\ reqs[1].status = 200
    /\ reqs[1].body.data.methods.traditional.income = 132449
    /\ reqs[1].body.data.methods.ml.income = 88500
    /\ reqs[1].body.data.methods.hybrid.income = 103882
    /\ reqs[1].body.data.comparison.range.spread = 43949

\* The answers that the handlers of the two leaf endpoints have built.
LeafHandled(endpoint) ==
    {i \in 1..Len(reqs) : /\ reqs[i].endpoint = endpoint
                          /\ reqs[i].pc = "done"
                          /\ reqs[i].body.kind \in {"json", "error"}}

\* C27: ZIP_ADJUSTMENTS and ML_PREDICTIONS hold the same region ids with
\* the same state for each, and every state of ZIP_ADJUSTMENTS is in
\* STATE_DATA; so predict-traditional and predict-ml give the same status
\* to every zipCode, 200 or 404 when it is well-formed, both within one
\* predict-hybrid or compare-methods request and as endpoints, and
\* predict-traditional never answers 500.
LookupTablesConsistent ==
    /\ DOMAIN ZIP_ADJUSTMENTS = DOMAIN ML_PREDICTIONS
    /\ \A z \in DOMAIN ZIP_ADJUSTMENTS :
          /\ ZIP_ADJUSTMENTS[z].state = ML_PREDICTIONS[z].state
          /\ ZIP_ADJUSTMENTS[z].state \in DOMAIN STATE_DATA
    /\ \A i \in LeafHandled("predict-traditional") :
          /\ reqs[i].status \in {200, 400, 404}
          /\ reqs[i].status = MLResponse(reqs[i].zipCode).status
          /\ ~InvalidZip(reqs[i].zipCode) => reqs[i].status \in {200, 404}
    /\ \A i \in LeafHandled("predict-ml") :
          /\ reqs[i].status \in {200, 400, 404}
          /\ reqs[i].status = TraditionalResponse(reqs[i].zipCode).status
    /\ \A i \in LeafHandled("predict-traditional"), j \in LeafHandled("predict-ml") :
          (reqs[i].parent = reqs[j].parent /\ reqs[i].parent # 0)
              => reqs[i].status = reqs[j].status

\* C27 witness: within one predict-hybrid request for 12345 both
\* predict-traditional and predict-ml have answered 404.
BothLeavesAnswer404 ==
    /\ reqs # <<>>
    /\ reqs[1].endpoint = "predict-hybrid"
    /\ reqs[1].zipCode = Z12345
    /\ \E i \in LeafHandled("predict-traditional"), j \in LeafHandled("predict-ml") :
          /\ reqs[i].parent = 1 /\ reqs[i].status = 404
          /\ reqs[j].parent = 1 /\ reqs[j].status = 404

MLAlwaysWeightedMore ==
    \A d \in HybridResults :
        /\ d.components.mlWeight >= 58
        /\ d.components.traditionalWeight <= 42
        /\ d.components.mlWeight > d.components.traditionalWeight

\* C29 witness: an invocation with the statistical confidence 1.00 and the
\* ML confidence 0 has returned with the weights 0.58 and 0.42.
MLWeightedMoreAtFullLead ==
    \E i \in 1..Len(reqs) :
        /\ reqs[i].endpoint = "calculateHybridPrediction"
        /\ reqs[i].pc = "done"
        /\ reqs[i].traditional.confidence = 100 * Cent
        /\ reqs[i].ml.confidence = 0
        /\ reqs[i].body.data.components.mlWeight = 58
        /\ reqs[i].body.data.components.traditionalWeight = 42
=============================================================================
